---- MODULE Spec2Model ----
(***************************************************************************)
(* coinpulse: the CoinGecko fetch client (lib/coingecko.action.ts), the    *)
(* home page (app/page.tsx) and the TrendingCoin section with its table.   *)
(*                                                                         *)
(* JavaScript values are records [kind, val].  Strings are TLA+ strings;   *)
(* where the code works on a string character by character (percent       *)
(* encoding, joining a query) the string is taken apart with CharsOf and   *)
(* put together with Join.                                                 *)
(***************************************************************************)
EXTENDS Integers, Sequences, FiniteSets, TLC

\* Number of fetcher invocations in flight at once.
NumCalls == 2

VARIABLES
    env,        \* process.env: COINGECKO_BASE_URL, COINGECKO_API_KEY
    modulePc,   \* evaluation of the module body: "loading", "loaded", "failed"
    moduleError,\* message of the Error thrown by the module body, or ""
    BASE_URL,   \* const BASE_URL
    API_KEY,    \* const API_KEY
    pc,         \* per call: "idle", "fetch", "json", "resolved", "rejected"
    args,       \* per call: the arguments endPoint, params, revalidate
    fetches,    \* per call: the sequence of requests handed to fetch()
    response,   \* per call: the Response fetch() resolved with
    result,     \* per call: the settled value of the promise fetcher returned
    query,      \* query-string check: the parameter mapping
    qUrl,       \* query-string check: the URL stringifyUrl returned
    qChars,     \* query-string check: the characters of the query part
    columns,    \* table check: the column descriptors given to DataTable
    data,       \* table check: the rows given to DataTable
    table,      \* table check: what DataTable rendered
    sections    \* home page: per section, what its Suspense boundary holds

vars == <<env, modulePc, moduleError, BASE_URL, API_KEY, pc, args, fetches,
          response, result, query, qUrl, qChars, columns, data, table,
          sections>>

moduleVars == <<env, modulePc, moduleError, BASE_URL, API_KEY>>
callVars == <<pc, args, fetches, response, result>>
queryVars == <<query, qUrl, qChars>>
tableVars == <<columns, data, table>>

-----------------------------------------------------------------------------
(* JavaScript values *)

Undefined == [kind |-> "undefined"]
Null == [kind |-> "null"]
JStr(s) == [kind |-> "string", val |-> s]
JNum(n) == [kind |-> "number", val |-> n]
JBool(b) == [kind |-> "boolean", val |-> b]
JObj(f) == [kind |-> "object", val |-> f]
JArr(s) == [kind |-> "array", val |-> s]
EmptyObject == JObj(<<>>)

\* ToBoolean: the operand test of !x and x || y.
Truthy(v) ==
    CASE v.kind \in {"undefined", "null"} -> FALSE
      [] v.kind = "string" -> v.val # ""
      [] v.kind = "number" -> v.val # 0
      [] v.kind = "boolean" -> v.val
      [] OTHER -> TRUE

DigitChars == <<"0", "1", "2", "3", "4", "5", "6", "7", "8", "9">>

RECURSIVE NatToString(_)
NatToString(n) ==
    IF n < 10 THEN DigitChars[n + 1]
    ELSE NatToString(n \div 10) \o DigitChars[(n % 10) + 1]

\* String(v) / `${v}` for the values the model uses.
ToStr(v) ==
    CASE v.kind = "undefined" -> "undefined"
      [] v.kind = "null" -> "null"
      [] v.kind = "string" -> v.val
      [] v.kind = "number" -> NatToString(v.val)
      [] v.kind = "boolean" -> IF v.val THEN "true" ELSE "false"
      [] v.kind = "array" -> ""
      [] OTHER -> "[object Object]"

\* The characters of the strings that reach the encoder.
CharsOf(s) ==
    CASE s = "" -> <<>>
      [] s = "a" -> <<"a">>
      [] s = "a b" -> <<"a", " ", "b">>
      [] s = "x&y=z" -> <<"x", "&", "y", "=", "z">>
      [] s = "0" -> <<"0">>
      [] s = "1" -> <<"1">>
      [] s = "10" -> <<"1", "0">>
      [] s = "true" -> <<"t", "r", "u", "e">>
      [] s = "false" -> <<"f", "a", "l", "s", "e">>
      [] s = "page" -> <<"p", "a", "g", "e">>
      [] s = "q" -> <<"q">>
      [] s = "tag" -> <<"t", "a", "g">>

RECURSIVE Join(_)
Join(chars) ==
    IF chars = <<>> THEN "" ELSE Head(chars) \o Join(Tail(chars))

-----------------------------------------------------------------------------
(* The parts of the state a specification does not use stay as they start *)

NotRun == "-"
Sections == {"CoinOverview", "TrendingCoin"}

IdleModule ==
    /\ env = [COINGECKO_BASE_URL |-> Undefined, COINGECKO_API_KEY |-> Undefined]
    /\ modulePc = "loading"
    /\ moduleError = ""
    /\ BASE_URL = Undefined
    /\ API_KEY = Undefined

IdleCalls ==
    /\ pc = [c \in 1 .. NumCalls |-> "idle"]
    /\ args = [c \in 1 .. NumCalls |-> Undefined]
    /\ fetches = [c \in 1 .. NumCalls |-> <<>>]
    /\ response = [c \in 1 .. NumCalls |-> Undefined]
    /\ result = [c \in 1 .. NumCalls |-> Undefined]

IdleQuery ==
    /\ query = Undefined
    /\ qUrl = NotRun
    /\ qChars = <<>>

IdleTable ==
    /\ columns = <<>>
    /\ data = <<>>
    /\ table = [rendered |-> FALSE]

IdlePage == sections = [s \in Sections |-> [state |-> "idle"]]

-----------------------------------------------------------------------------
(* query-string: stringifyUrl(.., {skipEmptyString: true, skipNull: true}) *)

\* The keys a parameter mapping may hold, in the order Object.keys().sort()
\* leaves them.
SortedKeys == <<"page", "q", "tag">>
Keys == {SortedKeys[i] : i \in DOMAIN SortedKeys}

\* strict-uri-encode over encodeURIComponent, one character.
EncodeChar(c) ==
    CASE c = " " -> <<"%", "2", "0">>
      [] c = "&" -> <<"%", "2", "6">>
      [] c = "=" -> <<"%", "3", "D">>
      [] c = "%" -> <<"%", "2", "5">>
      [] OTHER -> <<c>>

RECURSIVE EncodeChars(_)
EncodeChars(chars) ==
    IF chars = <<>> THEN <<>>
    ELSE EncodeChar(Head(chars)) \o EncodeChars(Tail(chars))

Encode(s) == EncodeChars(CharsOf(s))

\* shouldFilter of stringify under skipNull and skipEmptyString.
FilterFalsy(v) == ~Truthy(v)
ShouldFilter(v) ==
    \/ v.kind \in {"undefined", "null"}
    \/ v = JStr("")

\* One key of the sorted, filtered object: "key=value".
Pair(key, v) == Encode(key) \o <<"=">> \o Encode(ToStr(v))

\* keys.map(..).filter(x => x.length > 0).join('&'), from key i on; `first`
\* tells whether a pair was already written.
RECURSIVE StringifyFrom(_, _, _)
StringifyFrom(object, i, first) ==
    IF i > Len(SortedKeys) THEN <<>>
    ELSE LET key == SortedKeys[i] IN
         IF key \notin DOMAIN object \/ ShouldFilter(object[key])
         THEN StringifyFrom(object, i + 1, first)
         ELSE (IF first THEN <<>> ELSE <<"&">>)
              \o Pair(key, object[key])
              \o StringifyFrom(object, i + 1, FALSE)

\* stringify(query): query is Undefined (no params) or a function Keys -> value.
Stringify(object) ==
    IF object = Undefined THEN <<>> ELSE StringifyFrom(object, 1, TRUE)

\* stringifyUrl({url, query}): the url, then "?" and the query when not empty.
StringifyUrl(url, object) ==
    LET queryString == Stringify(object) IN
    IF queryString = <<>> THEN url ELSE url \o "?" \o Join(queryString)

-----------------------------------------------------------------------------
(* lib/coingecko.action.ts: the module body *)

BaseUrlSetting == JStr("https://api.coingecko.com/api/v3")
ApiKeySetting == JStr("CG-demo-key")

\* What process.env may hold for a setting: absent, empty, or set.
EnvBaseUrls == {Undefined, JStr(""), BaseUrlSetting}
EnvApiKeys == {Undefined, JStr(""), ApiKeySetting}

\* The Error the two guards of the module body throw, "" when neither does.
ModuleThrowsNoKeyGuard(base, key) ==
    IF ~Truthy(base) THEN "Could not get base url" ELSE ""
ModuleThrows(base, key) ==
    IF ~Truthy(base) THEN "Could not get base url"
    ELSE IF ~Truthy(key) THEN "Could not get api key"
    ELSE ""

\* Evaluation of the module body, once, before fetcher can be imported.
LoadModule ==
    /\ modulePc = "loading"
    /\ BASE_URL' = env.COINGECKO_BASE_URL
    /\ API_KEY' = env.COINGECKO_API_KEY
    /\ moduleError' = ModuleThrows(env.COINGECKO_BASE_URL, env.COINGECKO_API_KEY)
    /\ modulePc' = IF moduleError' = "" THEN "loaded" ELSE "failed"
    /\ UNCHANGED <<env, callVars, queryVars, tableVars, sections>>

-----------------------------------------------------------------------------
(* fetch(): responses and their bodies *)

Statuses == {200, 401, 500}

ReasonPhrase(status) ==
    CASE status = 200 -> "OK"
      [] status = 401 -> "Unauthorized"
      [] status = 500 -> "Internal Server Error"

BodyHtml == "<html>"
BodyNull == "null"
BodyEmptyObject == "{}"
BodyBadKey == "{\"error\":\"bad key\"}"
BodyEmptyError == "{\"error\":\"\"}"
BodyCoins == "{\"coins\":[]}"

Bodies ==
    {BodyHtml, BodyNull, BodyEmptyObject, BodyBadKey, BodyEmptyError, BodyCoins}

Responses ==
    {[status |-> s, ok |-> s \in 200..299, statusText |-> ReasonPhrase(s),
      body |-> b] : s \in Statuses, b \in Bodies}

\* JSON.parse on the bodies above: the value, or a SyntaxError.
JSONParse(text) ==
    CASE text = BodyNull -> [ok |-> TRUE, value |-> Null]
      [] text = BodyEmptyObject -> [ok |-> TRUE, value |-> EmptyObject]
      [] text = BodyBadKey ->
            [ok |-> TRUE, value |-> JObj([error |-> JStr("bad key")])]
      [] text = BodyEmptyError ->
            [ok |-> TRUE, value |-> JObj([error |-> JStr("")])]
      [] text = BodyCoins ->
            [ok |-> TRUE, value |-> JObj([coins |-> JArr(<<>>)])]
      [] OTHER -> [ok |-> FALSE, value |-> Undefined]

\* response.json()
ResponseJson(resp) == JSONParse(resp.body)

\* A settled promise.
Fulfilled(v) == [state |-> "fulfilled", value |-> v]
Rejected(name, message) ==
    [state |-> "rejected", name |-> name, message |-> message]

\* v.error: reading a property of null or undefined throws.
CanReadProperty(v) == v.kind \notin {"undefined", "null"}
GetError(v) ==
    IF v.kind = "object" /\ "error" \in DOMAIN v.val THEN v.val.error
    ELSE Undefined

-----------------------------------------------------------------------------
(* fetcher *)

Calls == 1 .. NumCalls

DefaultRevalidate == 60
TrendingRevalidate == 300

\* The argument lists fetcher is called with.
ArgLists ==
    {[endPoint |-> "/search/trending", params |-> Undefined,
      revalidate |-> TrendingRevalidate],
     [endPoint |-> "coins/markets",
      params |-> [page |-> JNum(1), q |-> JStr(""), tag |-> Null],
      revalidate |-> DefaultRevalidate]}

\* The name of the header that carries the key.
ApiKeyHeader == "x-cg-demo-api-key"

\* The url and the init object handed to fetch(); no method is given, so GET.
FetchRequestNoContentType(a) ==
    [method |-> "GET",
     url |-> StringifyUrl(ToStr(BASE_URL) \o "/" \o a.endPoint, a.params),
     headers |-> (ApiKeyHeader :> ToStr(API_KEY)),
     revalidate |-> a.revalidate]
FetchRequest(a) ==
    [method |-> "GET",
     url |-> StringifyUrl(ToStr(BASE_URL) \o "/" \o a.endPoint, a.params),
     headers |-> (ApiKeyHeader :> ToStr(API_KEY))
                 @@ ("Content-Type" :> "application/json"),
     revalidate |-> a.revalidate]

\* A local of one invocation: only that invocation's slot changes.
SetShared(f, c, v) == [d \in DOMAIN f |-> v]
SetLocal(f, c, v) == [f EXCEPT ![c] = v]

\* .catch(() => ({})) on the promise of response.json().
NoCatch(parsed) == parsed
CatchToEmptyObject(parsed) ==
    IF parsed.ok THEN parsed ELSE [ok |-> TRUE, value |-> EmptyObject]

\* if (!response.ok) { ... throw ... }
ErrorPathSwallow(resp) ==
    Fulfilled((CatchToEmptyObject(ResponseJson(resp))).value)
ErrorPath(resp) ==
    LET errorBody == CatchToEmptyObject(ResponseJson(resp)) IN
    IF ~errorBody.ok
    THEN Rejected("SyntaxError", "Unexpected token in JSON")
    ELSE IF ~CanReadProperty(errorBody.value)
    THEN Rejected("TypeError",
                  "Cannot read properties of null (reading 'error')")
    ELSE LET error == GetError(errorBody.value)
             text == IF Truthy(error) THEN error ELSE JStr(resp.statusText)
         IN Rejected("Error", "API Error: " \o NatToString(resp.status)
                              \o ": " \o ToStr(text))

\* return response.json()
SuccessPathRewrap(resp) ==
    LET parsed == ResponseJson(resp) IN
    IF parsed.ok THEN Fulfilled(JObj([data |-> parsed.value]))
    ELSE Rejected("SyntaxError", "Unexpected token in JSON")
SuccessPath(resp) ==
    LET parsed == ResponseJson(resp) IN
    IF parsed.ok THEN Fulfilled(parsed.value)
    ELSE Rejected("SyntaxError", "Unexpected token in JSON")

\* What fetcher settles with once fetch() resolved with resp.
Settle(resp) == IF ~resp.ok THEN ErrorPath(resp) ELSE SuccessPath(resp)

\* fetcher(endPoint, params, revalidate) up to its first await: the URL is
\* built and fetch() is called.
FetcherCall(c) ==
    /\ modulePc = "loaded"
    /\ pc[c] = "idle"
    /\ \E a \in ArgLists :
          /\ args' = SetLocal(args, c, a)
          /\ fetches' = SetLocal(fetches, c, Append(fetches[c], FetchRequest(a)))
    /\ pc' = SetLocal(pc, c, "fetch")
    /\ UNCHANGED <<response, result, moduleVars, queryVars, tableVars,
                   sections>>

\* fetch() resolves with a Response; both branches then await response.json().
FetchResolves(c) ==
    /\ pc[c] = "fetch"
    /\ \E resp \in Responses : response' = SetLocal(response, c, resp)
    /\ pc' = SetLocal(pc, c, "json")
    /\ UNCHANGED <<args, fetches, result, moduleVars, queryVars, tableVars,
                   sections>>

\* fetch() rejects (no connection): the await throws out of fetcher.
FetchRejects(c) ==
    /\ pc[c] = "fetch"
    /\ result' = SetLocal(result, c, Rejected("TypeError", "fetch failed"))
    /\ pc' = SetLocal(pc, c, "rejected")
    /\ UNCHANGED <<args, fetches, response, moduleVars, queryVars, tableVars,
                   sections>>

\* response.json() settles and fetcher throws or returns.
JsonSettles(c) ==
    /\ pc[c] = "json"
    /\ result' = SetLocal(result, c, Settle(response[c]))
    /\ pc' = SetLocal(pc, c, IF result'[c].state = "fulfilled"
                             THEN "resolved" ELSE "rejected")
    /\ UNCHANGED <<args, fetches, response, moduleVars, queryVars, tableVars,
                   sections>>

InitFetch ==
    /\ env \in [COINGECKO_BASE_URL : EnvBaseUrls, COINGECKO_API_KEY : EnvApiKeys]
    /\ modulePc = "loading"
    /\ moduleError = ""
    /\ BASE_URL = Undefined
    /\ API_KEY = Undefined
    /\ IdleCalls
    /\ IdleQuery
    /\ IdleTable
    /\ IdlePage

NextFetch ==
    \/ LoadModule
    \/ \E c \in Calls : FetcherCall(c)
    \/ \E c \in Calls : FetchResolves(c)
    \/ \E c \in Calls : FetchRejects(c)
    \/ \E c \in Calls : JsonSettles(c)

SpecFetch == InitFetch /\ [][NextFetch]_vars

-----------------------------------------------------------------------------
(* The query-string check: stringifyUrl applied to every parameter mapping *)

ParamValues ==
    {Undefined, Null, JStr(""), JStr("a"), JStr("a b"), JStr("x&y=z"),
     JNum(0), JNum(1), JBool(FALSE)}

AllParams == [Keys -> ParamValues]

InitQuery ==
    /\ IdleModule
    /\ IdleCalls
    /\ IdleTable
    /\ IdlePage
    /\ query \in AllParams
    /\ qUrl = NotRun
    /\ qChars = <<>>

QueryBase == "https://api.coingecko.com/api/v3/coins/markets"

StringifyQuery ==
    /\ qUrl = NotRun
    /\ qUrl' = StringifyUrl(QueryBase, query)
    /\ qChars' = Stringify(query)
    /\ UNCHANGED <<query, moduleVars, callVars, tableVars, sections>>

NextQuery == StringifyQuery

SpecQuery == InitQuery /\ [][NextQuery]_vars

-----------------------------------------------------------------------------
(* lib/utils.ts: formatCurrency.  Amounts are whole cents, percentages are  *)
(* whole hundredths of a percent, and the runtime locale is en-US.          *)

TwoDigits(n) == IF n < 10 THEN "0" \o NatToString(n) ELSE NatToString(n)
ThreeDigits(n) == IF n < 100 THEN "0" \o TwoDigits(n) ELSE NatToString(n)

\* The integer part with its thousands separators.
RECURSIVE Grouped(_)
Grouped(n) ==
    IF n < 1000 THEN NatToString(n)
    ELSE Grouped(n \div 1000) \o "," \o ThreeDigits(n % 1000)

\* formatCurrency(value): digits, currency and showSymbol are not passed.
FormatCurrency(value) ==
    IF value.kind \in {"null", "undefined"} THEN "$0.00"
    ELSE "$" \o Grouped(value.val \div 100) \o "." \o TwoDigits(value.val % 100)

\* (h / 100).toFixed(2)
ToFixed2(h) ==
    LET a == IF h < 0 THEN 0 - h ELSE h IN
    (IF h < 0 THEN "-" ELSE "") \o NatToString(a \div 100) \o "."
        \o TwoDigits(a % 100)

-----------------------------------------------------------------------------
(* components/home/TrendingCoin.tsx: the column descriptors *)

Coin(id, name, usd, price) ==
    [item |-> [id |-> id, name |-> name, large |-> id \o ".png",
               data |-> [price |-> price,
                         price_change_percentage_24h |-> [usd |-> usd]]]]

Coins ==
    {Coin("bitcoin", "Bitcoin", 250, JNum(6543210)),
     Coin("pepe", "Pepe", 0 - 125, JNum(5)),
     Coin("tether", "Tether", 0, Null)}

NameCell(coin) ==
    [href |-> "/coins/" \o coin.item.id, src |-> coin.item.large,
     alt |-> coin.item.name, text |-> coin.item.name]

ChangeCell(coin) ==
    LET usd == coin.item.data.price_change_percentage_24h.usd
        isTrendingUp == usd > 0
        percentage == ToFixed2(usd)
    IN [className |-> IF isTrendingUp THEN "price-change text-green-500"
                      ELSE "price-change text-red-500",
        icon |-> IF isTrendingUp THEN "TrendingUp" ELSE "TrendingDown",
        text |-> percentage \o "%"]

PriceCell(coin) == [text |-> FormatCurrency(coin.item.data.price)]

NameColumn ==
    [header |-> "Name", cellClassName |-> "name-cell",
     cell |-> [coin \in Coins |-> NameCell(coin)]]
ChangeColumn ==
    [header |-> "24h Change", cellClassName |-> "name-cell",
     cell |-> [coin \in Coins |-> ChangeCell(coin)]]
PriceColumn ==
    [header |-> "Price", cellClassName |-> "price-cell",
     cell |-> [coin \in Coins |-> PriceCell(coin)]]

TrendingColumns == <<NameColumn, ChangeColumn, PriceColumn>>

\* rowKey={(coin) => coin.item.id}
RowKey == [coin \in Coins |-> coin.item.id]

\* How many of the trending coins the section shows.
TrendingLimit == 6

\* rows.slice(0, n)
Slice(rows, n) == SubSeq(rows, 1, IF Len(rows) < n THEN Len(rows) ELSE n)

-----------------------------------------------------------------------------
(* components/DataTable.tsx: one header cell per column, one body row per   *)
(* row, one cell per column in each                                         *)

HeaderRow(cols) == [i \in DOMAIN cols |-> cols[i].header]

BodyRow(cols, row, rowKey) ==
    [key |-> rowKey[row], cells |-> [i \in DOMAIN cols |-> cols[i].cell[row]]]

DataTableNothingWhenEmpty(cols, rows, rowKey) ==
    [rendered |-> TRUE,
     header |-> IF rows = <<>> THEN <<>> ELSE HeaderRow(cols),
     body |-> [j \in DOMAIN rows |-> BodyRow(cols, rows[j], rowKey)]]
DataTable(cols, rows, rowKey) ==
    [rendered |-> TRUE,
     header |-> HeaderRow(cols),
     body |-> [j \in DOMAIN rows |-> BodyRow(cols, rows[j], rowKey)]]

\* Longest row collection and column list the table check draws.
MaxRows == 2
MaxCols == 3

BoundedSeqs(S, n) == UNION {[1 .. k -> S] : k \in 0 .. n}

InitTable ==
    /\ IdleModule
    /\ IdleCalls
    /\ IdleQuery
    /\ IdlePage
    /\ columns \in BoundedSeqs({NameColumn, ChangeColumn, PriceColumn}, MaxCols)
    /\ data \in BoundedSeqs(Coins, MaxRows)
    /\ table = [rendered |-> FALSE]

RenderTable ==
    /\ ~table.rendered
    /\ table' = DataTable(columns, data, RowKey)
    /\ UNCHANGED <<columns, data, moduleVars, callVars, queryVars, sections>>

NextTable == RenderTable

SpecTable == InitTable /\ [][NextTable]_vars

-----------------------------------------------------------------------------
(* components/home/TrendingCoin.tsx and app/page.tsx *)

Threw(name, message) == [state |-> "threw", name |-> name, message |-> message]

\* The async component, from the promise its fetcher call settled with.
TrendingCoin(outcome) ==
    IF outcome.state = "rejected"
    THEN Threw(outcome.name, outcome.message)
    ELSE LET trendingCoins == outcome.value IN
         IF trendingCoins.kind # "object"
         THEN Threw("TypeError", "Cannot read properties of null (reading 'coins')")
         ELSE IF "coins" \notin DOMAIN trendingCoins.val
         THEN Threw("TypeError",
                    "Cannot read properties of undefined (reading 'slice')")
         ELSE [state |-> "rendered",
               heading |-> "Trending Coins",
               table |-> DataTable(TrendingColumns,
                                   Slice(trendingCoins.val.coins.val,
                                         TrendingLimit),
                                   RowKey)]

\* Longest list of coins a /search/trending payload holds.
MaxCoins == 7

\* What fetcher('/search/trending', undefined, 300) can settle with.
TrendingOutcomes ==
    {Fulfilled(JObj([coins |-> JArr(l)])) : l \in BoundedSeqs(Coins, MaxCoins)}
    \cup {Settle(r) : r \in Responses}
    \cup {Rejected("TypeError", "fetch failed")}

\* components/home/CoinOverview.tsx: it awaits fetcher and renders; whether
\* it catches a rejected fetch and shows its own failure state is left open.
CoinOverview(outcome, catches) ==
    IF outcome.state = "fulfilled"
    THEN [state |-> "rendered", heading |-> "Coin Overview"]
    ELSE IF catches THEN [state |-> "failed"]
    ELSE Threw(outcome.name, outcome.message)

OverviewOutcomes ==
    {Fulfilled(EmptyObject), Rejected("TypeError", "fetch failed")}
    \cup {Settle(r) : r \in {x \in Responses : ~x.ok}}

\* page(): each section sits in its own <Suspense>, which shows the fallback
\* while the section is pending.  Nothing in the tree catches an error a
\* section throws, so it leaves page() and the route's error view replaces
\* the whole page.
PageThrew == \E s \in Sections : sections[s].state = "threw"

Shown(s) ==
    IF PageThrew THEN "error-page"
    ELSE CASE sections[s].state = "suspended" -> "fallback"
           [] sections[s].state = "rendered" -> "content"
           [] sections[s].state = "failed" -> "failure"
           [] OTHER -> "nothing"

InitPage ==
    /\ IdleModule
    /\ IdleCalls
    /\ IdleQuery
    /\ IdleTable
    /\ sections = [s \in Sections |-> [state |-> "suspended"]]

TrendingCoinSettles ==
    /\ sections["TrendingCoin"].state = "suspended"
    /\ \E outcome \in TrendingOutcomes :
          sections' = [sections EXCEPT !["TrendingCoin"] = TrendingCoin(outcome)]
    /\ UNCHANGED <<moduleVars, callVars, queryVars, tableVars>>

CoinOverviewSettles ==
    /\ sections["CoinOverview"].state = "suspended"
    /\ \E outcome \in OverviewOutcomes, catches \in BOOLEAN :
          sections' = [sections EXCEPT
                          !["CoinOverview"] = CoinOverview(outcome, catches)]
    /\ UNCHANGED <<moduleVars, callVars, queryVars, tableVars>>

NextPage == TrendingCoinSettles \/ CoinOverviewSettles

SpecPage == InitPage /\ [][NextPage]_vars

-----------------------------------------------------------------------------
(* Claims about fetcher, checked under SpecFetch *)

Settled(c) == pc[c] \in {"resolved", "rejected"}
GotResponse(c) == response[c] # Undefined

ApiError(status, text) ==
    Rejected("Error", "API Error: " \o NatToString(status) \o ": " \o text)

\* The `error` text a body provides: "" when the body is no JSON object or
\* has no non-empty `error` field.
ProvidedError(body) ==
    LET parsed == JSONParse(body) IN
    IF parsed.ok /\ parsed.value.kind = "object"
       /\ "error" \in DOMAIN parsed.value.val
    THEN parsed.value.val.error.val
    ELSE ""

\* C1: a call whose response has a non-success status raises an Error whose
\* message is "API Error: <status>: <text>", <text> being the body's `error`
\* field when the server gave one and the reason phrase otherwise; 401 with
\* {"error": "bad key"} raises "API Error: 401: bad key".
C1_NonOkRaisesApiError ==
    \A c \in Calls :
        (Settled(c) /\ GotResponse(c) /\ ~response[c].ok) =>
            /\ pc[c] = "rejected"
            /\ result[c] =
                 ApiError(response[c].status,
                          IF ProvidedError(response[c].body) # ""
                          THEN ProvidedError(response[c].body)
                          ELSE response[c].statusText)
            /\ (response[c].status = 401 /\ response[c].body = BodyBadKey
                   => result[c].message = "API Error: 401: bad key")

\* C2: a non-success response whose body is not JSON raises the uniform
\* error with the status and the reason phrase, never the parse failure.
C2_UnparsableErrorBody ==
    \A c \in Calls :
        (Settled(c) /\ GotResponse(c) /\ ~response[c].ok
         /\ ~JSONParse(response[c].body).ok) =>
            /\ pc[c] = "rejected"
            /\ result[c].name = "Error"
            /\ result[c] = ApiError(response[c].status, response[c].statusText)
            /\ (response[c].status = 500
                   => result[c].message = "API Error: 500: Internal Server Error")

C2_Witness ==
    \E c \in Calls :
        /\ pc[c] = "rejected"
        /\ GotResponse(c)
        /\ response[c].status = 500
        /\ response[c].body = BodyHtml
        /\ result[c].message = "API Error: 500: Internal Server Error"

\* C4: a call hands exactly one GET to fetch() and ends either fulfilled
\* with the decoded body or rejected; a failure is never retried, never
\* turned into a fulfilled value, and a call that has not ended can go on.
C4_OneGetOneOutcome ==
    \A c \in Calls :
        /\ pc[c] = "idle" => fetches[c] = <<>>
        /\ pc[c] # "idle" => Len(fetches[c]) = 1 /\ fetches[c][1].method = "GET"
        /\ ~Settled(c) => result[c] = Undefined
        /\ pc[c] = "fetch" => ENABLED FetchResolves(c) /\ ENABLED FetchRejects(c)
        /\ pc[c] = "json" => ENABLED JsonSettles(c)
        /\ pc[c] = "resolved" =>
              /\ GotResponse(c)
              /\ response[c].ok
              /\ JSONParse(response[c].body).ok
              /\ result[c] = Fulfilled(JSONParse(response[c].body).value)
        /\ pc[c] = "rejected" =>
              /\ result[c].state = "rejected"
              /\ result[c].message # ""
              /\ \/ ~GotResponse(c)
                 \/ ~response[c].ok
                 \/ ~JSONParse(response[c].body).ok

C4_Witness ==
    \E c, d \in Calls :
        /\ pc[c] = "rejected" /\ ~GotResponse(c) /\ Len(fetches[c]) = 1
        /\ pc[d] = "resolved" /\ Len(fetches[d]) = 1

MissingSetting ==
    ~Truthy(env.COINGECKO_BASE_URL) \/ ~Truthy(env.COINGECKO_API_KEY)

\* C5: with the base URL or the API key missing the module body throws, no
\* call of fetcher ever starts, and no request is made without both set.
C5_MissingConfigIsFatal ==
    /\ (modulePc # "loading" /\ MissingSetting) =>
          /\ modulePc = "failed"
          /\ moduleError \in {"Could not get base url", "Could not get api key"}
    /\ (MissingSetting \/ modulePc # "loaded") =>
          \A c \in Calls :
              pc[c] = "idle" /\ fetches[c] = <<>> /\ result[c] = Undefined
    /\ \A c \in Calls : \A i \in DOMAIN fetches[c] :
          /\ Truthy(BASE_URL) /\ Truthy(API_KEY)
          /\ fetches[c][i].headers[ApiKeyHeader] = ApiKeySetting.val

C5_Witness ==
    /\ modulePc = "failed"
    /\ env.COINGECKO_BASE_URL = BaseUrlSetting
    /\ env.COINGECKO_API_KEY = Undefined
    /\ moduleError = "Could not get api key"

\* The URL the spec gives for an argument list: {BASE_URL}/{endPoint}, then
\* the encoded query when one remains.
ExpectedUrl(a) ==
    IF a.params = Undefined
    THEN "https://api.coingecko.com/api/v3" \o "/" \o a.endPoint
    ELSE "https://api.coingecko.com/api/v3" \o "/" \o a.endPoint \o "?page=1"

\* C6 as stated: every request is a GET to that URL with the headers
\* x-api-key: {API_KEY} and Content-Type: application/json.
C6_Original ==
    \A c \in Calls : \A i \in DOMAIN fetches[c] :
        LET req == fetches[c][i] IN
        /\ req.method = "GET"
        /\ req.url = ExpectedUrl(args[c])
        /\ "x-api-key" \in DOMAIN req.headers
        /\ req.headers["x-api-key"] = "CG-demo-key"
        /\ req.headers["Content-Type"] = "application/json"

\* C6 (amended): every request is a GET to that URL and carries exactly the
\* headers x-cg-demo-api-key: {API_KEY} and Content-Type: application/json.
C6_RequestShape ==
    \A c \in Calls : \A i \in DOMAIN fetches[c] :
        LET req == fetches[c][i] IN
        /\ req.method = "GET"
        /\ req.url = ExpectedUrl(args[c])
        /\ DOMAIN req.headers = {"x-cg-demo-api-key", "Content-Type"}
        /\ req.headers["x-cg-demo-api-key"] = "CG-demo-key"
        /\ req.headers["Content-Type"] = "application/json"

C6_Witness ==
    \E c \in Calls :
        /\ Len(fetches[c]) = 1
        /\ fetches[c][1].url =
             "https://api.coingecko.com/api/v3/coins/markets?page=1"
        /\ fetches[c][1].headers["x-cg-demo-api-key"] = "CG-demo-key"

\* What one call holds, given only its own arguments and response.
OwnState(c) ==
    /\ pc[c] = "idle" => args[c] = Undefined /\ fetches[c] = <<>>
    /\ pc[c] # "idle" => args[c] \in ArgLists
                         /\ fetches[c] = <<FetchRequest(args[c])>>
    /\ pc[c] \in {"idle", "fetch"} => response[c] = Undefined
    /\ pc[c] = "json" => response[c] \in Responses
    /\ ~Settled(c) => result[c] = Undefined
    /\ (Settled(c) /\ GotResponse(c)) => result[c] = Settle(response[c])
    /\ (Settled(c) /\ ~GotResponse(c)) =>
          result[c] = Rejected("TypeError", "fetch failed")

\* A step of one call leaves every other call as it was.
OneCallSteps ==
    \E c \in Calls : \A d \in Calls \ {c} :
        /\ pc'[d] = pc[d]
        /\ args'[d] = args[d]
        /\ fetches'[d] = fetches[d]
        /\ response'[d] = response[d]
        /\ result'[d] = result[d]

\* C8: under every interleaving each call's request and outcome depend on
\* its own arguments and response only, a step of one call changes no other
\* call, and once the module is loaded BASE_URL and API_KEY never change.
C8_CallsIndependent ==
    /\ [](\A c \in Calls : OwnState(c))
    /\ [][/\ OneCallSteps
          /\ modulePc # "loading" =>
                /\ BASE_URL' = BASE_URL
                /\ API_KEY' = API_KEY
                /\ env' = env]_vars

C8_Witness ==
    \E c, d \in Calls :
        /\ c # d
        /\ pc[c] = "resolved" /\ response[c].body = BodyCoins
        /\ pc[d] = "rejected" /\ GotResponse(d) /\ response[d].status = 401
        /\ args[c] = args[d]

\* C10 as stated: every call whose response has a success status resolves
\* to the JSON-decoded body.
C10_Original ==
    \A c \in Calls :
        (Settled(c) /\ GotResponse(c) /\ response[c].ok) =>
            /\ pc[c] = "resolved"
            /\ result[c].state = "fulfilled"

\* C10 (amended): a call whose response has a success status and a body
\* that is valid JSON resolves to the decoded body, unchanged; a 200 with
\* {"coins": []} resolves to { coins: [] }.
C10_SuccessReturnsBody ==
    \A c \in Calls :
        (Settled(c) /\ GotResponse(c) /\ response[c].ok
         /\ JSONParse(response[c].body).ok) =>
            /\ pc[c] = "resolved"
            /\ result[c] = Fulfilled(JSONParse(response[c].body).value)
            /\ (response[c].body = BodyCoins =>
                   result[c].value = JObj([coins |-> JArr(<<>>)]))

C10_Witness ==
    \E c \in Calls :
        /\ pc[c] = "resolved"
        /\ response[c].status = 200
        /\ response[c].body = BodyCoins
        /\ result[c] = Fulfilled(JObj([coins |-> JArr(<<>>)]))

-----------------------------------------------------------------------------
(* Reading a query string back: split on "&" and "=", undo the escapes *)

RECURSIVE SplitOn(_, _)
SplitOn(chars, sep) ==
    IF \A i \in DOMAIN chars : chars[i] # sep THEN <<chars>>
    ELSE LET i == CHOOSE j \in DOMAIN chars :
                      chars[j] = sep /\ \A k \in 1..(j - 1) : chars[k] # sep
         IN <<SubSeq(chars, 1, i - 1)>>
            \o SplitOn(SubSeq(chars, i + 1, Len(chars)), sep)

DecodeEscape(a, b) ==
    CASE <<a, b>> = <<"2", "0">> -> " "
      [] <<a, b>> = <<"2", "6">> -> "&"
      [] <<a, b>> = <<"3", "D">> -> "="
      [] <<a, b>> = <<"2", "5">> -> "%"
      [] OTHER -> "?"

RECURSIVE DecodeChars(_)
DecodeChars(chars) ==
    IF chars = <<>> THEN <<>>
    ELSE IF Head(chars) = "%" /\ Len(chars) >= 3
         THEN <<DecodeEscape(chars[2], chars[3])>>
              \o DecodeChars(SubSeq(chars, 4, Len(chars)))
         ELSE <<Head(chars)>> \o DecodeChars(Tail(chars))

DecodeField(pair, i) ==
    IF i <= Len(pair) THEN Join(DecodeChars(pair[i])) ELSE NotRun

\* The query as a sequence of <<key, value>>, both decoded.
ParseQuery(chars) ==
    IF chars = <<>> THEN <<>>
    ELSE LET segs == SplitOn(chars, "&") IN
         [i \in DOMAIN segs |->
            LET pair == SplitOn(segs[i], "=") IN
            <<DecodeField(pair, 1), DecodeField(pair, 2), Len(pair)>>]

KeptKeys(object) ==
    {k \in Keys : object[k] \notin {Undefined, Null, JStr("")}}

ExampleParams == [page |-> JNum(1), q |-> JStr(""), tag |-> Null]

\* C7: the query of the URL stringifyUrl builds names no key whose value is
\* null, undefined or "", names every other key exactly once, as key=value
\* with the value's string form (percent-encoded), and is empty (no "?")
\* when no key is left; { page: 1, q: "", tag: null } gives "page=1".
C7_QueryOmitsEmptyKeepsRest ==
    qUrl # NotRun =>
        LET parsed == ParseQuery(qChars)
            kept == KeptKeys(query)
        IN /\ Len(parsed) = Cardinality(kept)
           /\ \A k \in Keys :
                 LET at == {i \in DOMAIN parsed : parsed[i][1] = k} IN
                 IF k \in kept
                 THEN /\ Cardinality(at) = 1
                      /\ \A i \in at : /\ parsed[i][2] = ToStr(query[k])
                                        /\ parsed[i][3] = 2
                 ELSE at = {}
           /\ (kept = {} => qUrl = QueryBase)
           /\ (kept # {} => qUrl = QueryBase \o "?" \o Join(qChars))
           /\ (query = ExampleParams => Join(qChars) = "page=1")

C7_Witness ==
    /\ qUrl = QueryBase \o "?page=1"
    /\ query = ExampleParams

-----------------------------------------------------------------------------
(* Claims about the table and the page *)

\* C9: for every row collection and column list the table has one header
\* cell per column and one body row per row, in input order, each with one
\* cell per column in column order, the cell of row j and column i being
\* columns[i].cell(data[j]); no rows gives the header alone.
C9_TableShape ==
    table.rendered =>
        /\ Len(table.header) = Len(columns)
        /\ \A i \in 1 .. Len(columns) : table.header[i] = columns[i].header
        /\ Len(table.body) = Len(data)
        /\ \A j \in 1 .. Len(data) :
              /\ table.body[j].key = data[j].item.id
              /\ Len(table.body[j].cells) = Len(columns)
              /\ \A i \in 1 .. Len(columns) :
                    table.body[j].cells[i] = columns[i].cell[data[j]]
        /\ (data = <<>> => table.body = <<>>)

C9_Witness ==
    /\ table.rendered
    /\ data = <<>>
    /\ Len(columns) = 2
    /\ table.header = <<"Price", "Name">>
    /\ table.body = <<>>

Failed(s) == sections[s].state \in {"threw", "failed"}

\* C3: a section whose fetch fails shows a failure state of its own, and
\* every section that rendered still shows its content, whatever the other
\* section did.
C3_SectionsIsolated ==
    \A s \in Sections :
        /\ sections[s].state = "rendered" => Shown(s) = "content"
        /\ Failed(s) => Shown(s) = "failure"

====
